---- MODULE Spec2Model ----
(***************************************************************************)
(* Model of the data-filling form application: the session controller,    *)
(* the in-memory submission list and the store adapter, in the three      *)
(* builds found in the repository:                                         *)
(*   "plain"  src/src/App.jsx        remote adapter, no error handling     *)
(*   "ui"     src/unnamed/part_000   remote adapter, errors swallowed      *)
(*   "local"  src/unnamed/part_001   localStorage adapter                  *)
(* Strings that take part in key derivation (user name, password) are     *)
(* sequences of character codes; JSON text is a sequence of tokens.       *)
(***************************************************************************)
EXTENDS Integers, Sequences, FiniteSets, TLC

VARIABLES
    variant,        \* which build is running
    loggedIn,       \* useState(false)
    loginError,     \* useState('')
    submissions,    \* useState([])
    currentPage,    \* useState('form')
    auth,           \* useState({username:'', password:''}) / useState('') for username
    localStorage,   \* browser storage: key -> raw text
    server,         \* remote endpoint: username -> stored records
    pendingLogins,  \* handleLogin calls suspended at `await fetchSubmissions`
    pendingPosts,   \* postSubmission requests in flight
    nLogin,         \* number of logins dispatched so far
    nSubmit,        \* number of submits dispatched so far
    last,           \* the last handler step (page switches aside) and what its read gave
    session,        \* the list obtained at login and for whom, the records submitted since, whether a POST threw
    history         \* records submitted per credential pair; whether storage has failed

vars == <<variant, loggedIn, loginError, submissions, currentPage,
          auth, localStorage, server, pendingLogins, pendingPosts,
          nLogin, nSubmit, last, session, history>>

----------------------------------------------------------------------------
\* Bounds of the exploration.

MaxLogin == 2
MaxSubmit == 2

----------------------------------------------------------------------------
\* Inputs.

Variants == {"plain", "ui", "local"}

Remote == variant \in {"plain", "ui"}

\* Character codes: 97 'a', 98 'b', 99 'c', 0 NUL, 955 GREEK SMALL LAMDA.
Usernames == { <<>>, <<97>>, <<97, 0, 98>>, <<955>> }

Passwords == { <<>>, <<99>>, <<98, 0, 99>> }

\* The remote builds use the user name alone.
RemoteUsernames == { <<>>, <<97>>, <<955>> }

RemotePasswords == { <<>>, <<99>> }

R1 == [name |-> "Bob", email |-> "b@x.com", phone |-> "555", address |-> "1 Rd", message |-> "hi"]

R2 == [name |-> "Eve", email |-> "e@x.com", phone |-> "777", address |-> "2 Rd", message |-> ""]

Records == {R1, R2}

\* How a fetch() ends: 2xx response, non-2xx response, rejected promise.
Outcomes == {"ok", "status", "throw"}

RequiredMsg == "Username and password are required"

----------------------------------------------------------------------------
\* JSON text as tokens.

Tok(t, v) == [t |-> t, v |-> v]

LB == Tok("[", "")
RB == Tok("]", "")
LC == Tok("{", "")
RC == Tok("}", "")
COMMA == Tok(",", "")
COLON == Tok(":", "")
STR(s) == Tok("str", s)

\* JSON.stringify of one submission object: keys in insertion order.
stringifyObject(r) ==
    << LC, STR("name"), COLON, STR(r.name), COMMA,
           STR("email"), COLON, STR(r.email), COMMA,
           STR("phone"), COLON, STR(r.phone), COMMA,
           STR("address"), COLON, STR(r.address), COMMA,
           STR("message"), COLON, STR(r.message), RC >>

RECURSIVE stringifyItems(_)
stringifyItems(s) ==
    IF Len(s) = 0 THEN <<>>
    ELSE IF Len(s) = 1 THEN stringifyObject(s[1])
    ELSE stringifyObject(s[1]) \o <<COMMA>> \o stringifyItems(Tail(s))

\* JSON.stringify(submissions)
JSON_stringify(s) == <<LB>> \o stringifyItems(s) \o <<RB>>

\* Parse results: ok = no SyntaxError; val = the value; rest = unread tokens.
ParseFail == [ok |-> FALSE, val |-> <<>>, rest |-> <<>>]

\* members after "{" : STR ":" STR ("," STR ":" STR)* "}"
RECURSIVE parseMembers(_, _)
parseMembers(toks, acc) ==
    IF Len(toks) < 4 THEN ParseFail
    ELSE IF toks[1].t # "str" \/ toks[2] # COLON \/ toks[3].t # "str" THEN ParseFail
    ELSE LET obj == (toks[1].v :> toks[3].v) @@ acc
             more == SubSeq(toks, 5, Len(toks))
         IN  IF toks[4] = RC THEN [ok |-> TRUE, val |-> obj, rest |-> more]
             ELSE IF toks[4] = COMMA THEN parseMembers(more, obj)
             ELSE ParseFail

parseObject(toks) ==
    IF Len(toks) < 2 \/ toks[1] # LC THEN ParseFail
    ELSE IF toks[2] = RC THEN [ok |-> TRUE, val |-> <<>>, rest |-> SubSeq(toks, 3, Len(toks))]
    ELSE parseMembers(Tail(toks), <<>>)

\* elements after "[" : object ("," object)* "]"
RECURSIVE parseElements(_, _)
parseElements(toks, acc) ==
    LET o == parseObject(toks) IN
    IF ~o.ok \/ Len(o.rest) = 0 THEN ParseFail
    ELSE IF o.rest[1] = RB THEN [ok |-> TRUE, val |-> Append(acc, o.val), rest |-> Tail(o.rest)]
    ELSE IF o.rest[1] = COMMA THEN parseElements(Tail(o.rest), Append(acc, o.val))
    ELSE ParseFail

parseArray(toks) ==
    IF Len(toks) < 2 \/ toks[1] # LB THEN ParseFail
    ELSE IF toks[2] = RB THEN [ok |-> TRUE, val |-> <<>>, rest |-> SubSeq(toks, 3, Len(toks))]
    ELSE parseElements(Tail(toks), <<>>)

\* JSON.parse(raw) for the texts that can be in storage: an array of objects
\* with string members, or one such object; anything else is a SyntaxError.
\* The result says whether parsing threw and what kind of value came out.
JSON_parse(raw) ==
    LET bad == [ok |-> FALSE, kind |-> "none", items |-> <<>>] IN
    IF Len(raw) = 0 THEN bad
    ELSE IF raw[1] = LB THEN
        LET a == parseArray(raw) IN
        IF a.ok /\ Len(a.rest) = 0 THEN [ok |-> TRUE, kind |-> "array", items |-> a.val] ELSE bad
    ELSE IF raw[1] = LC THEN
        LET o == parseObject(raw) IN
        IF o.ok /\ Len(o.rest) = 0 THEN [ok |-> TRUE, kind |-> "object", items |-> <<o.val>>] ELSE bad
    ELSE bad

----------------------------------------------------------------------------
\* Storage key derivation.

\* The base64 alphabet: A-Z a-z 0-9 + /
B64Char(i) ==
    IF i < 26 THEN 65 + i
    ELSE IF i < 52 THEN 97 + (i - 26)
    ELSE IF i < 62 THEN 48 + (i - 52)
    ELSE IF i = 62 THEN 43 ELSE 47

\* '='
B64Pad == 61

RECURSIVE B64(_)
B64(b) ==
    IF Len(b) = 0 THEN <<>>
    ELSE IF Len(b) = 1 THEN
        << B64Char(b[1] \div 4), B64Char((b[1] % 4) * 16), B64Pad, B64Pad >>
    ELSE IF Len(b) = 2 THEN
        << B64Char(b[1] \div 4), B64Char((b[1] % 4) * 16 + b[2] \div 16),
           B64Char((b[2] % 16) * 4), B64Pad >>
    ELSE
        << B64Char(b[1] \div 4), B64Char((b[1] % 4) * 16 + b[2] \div 16),
           B64Char((b[2] % 16) * 4 + b[3] \div 64), B64Char(b[3] % 64) >>
        \o B64(SubSeq(b, 4, Len(b)))

\* btoa(raw): InvalidCharacterError for a code unit above 0xFF.
btoa(raw) ==
    IF \E i \in 1..Len(raw) : raw[i] > 255
    THEN [ok |-> FALSE, val |-> <<>>]
    ELSE [ok |-> TRUE, val |-> B64(raw)]

\* typeof btoa === 'function': the application runs in a browser.
hasBtoa == TRUE

\* "submissions:"
KeyPrefix == <<115, 117, 98, 109, 105, 115, 115, 105, 111, 110, 115, 58>>

\* ok = FALSE: the function threw.
getSubmissionsStorageKey(username, password) ==
    LET raw == username \o <<0>> \o password
        encoded == IF hasBtoa THEN btoa(raw) ELSE [ok |-> TRUE, val |-> raw]
    IN  [ok |-> encoded.ok, val |-> KeyPrefix \o encoded.val]

----------------------------------------------------------------------------
\* Local adapter.  getOk / setOk: whether localStorage.getItem / setItem
\* returns normally (FALSE: it throws: storage blocked, quota exceeded).

\* loadSubmissions without its Array.isArray test.
loadSubmissions_anyShape(store, username, password, getOk) ==
    LET key == getSubmissionsStorageKey(username, password) IN
    IF ~key.ok \/ ~getOk THEN <<>>
    ELSE IF key.val \notin DOMAIN store THEN <<>>
    ELSE LET raw == store[key.val] IN
         IF Len(raw) = 0 THEN <<>>
         ELSE LET parsed == JSON_parse(raw) IN
              IF ~parsed.ok THEN <<>> ELSE parsed.items

loadSubmissions(store, username, password, getOk) ==
    LET key == getSubmissionsStorageKey(username, password) IN
    IF ~key.ok \/ ~getOk THEN <<>>
    ELSE IF key.val \notin DOMAIN store THEN <<>>
    ELSE LET raw == store[key.val] IN
         IF Len(raw) = 0 THEN <<>>
         ELSE LET parsed == JSON_parse(raw) IN
              IF ~parsed.ok THEN <<>>
              ELSE IF parsed.kind = "array" THEN parsed.items ELSE <<>>

\* saveSubmissions storing the newest record instead of the whole list.
saveSubmissions_delta(store, username, password, subs, setOk) ==
    LET key == getSubmissionsStorageKey(username, password) IN
    IF ~key.ok \/ ~setOk THEN store
    ELSE [k \in DOMAIN store \cup {key.val} |->
            IF k = key.val THEN JSON_stringify(SubSeq(subs, Len(subs), Len(subs))) ELSE store[k]]

saveSubmissions(store, username, password, subs, setOk) ==
    LET key == getSubmissionsStorageKey(username, password) IN
    IF ~key.ok \/ ~setOk THEN store
    ELSE [k \in DOMAIN store \cup {key.val} |->
            IF k = key.val THEN JSON_stringify(subs) ELSE store[k]]

----------------------------------------------------------------------------
\* Remote adapter.  `stored` is what the endpoint holds for the user.

\* src/unnamed/part_000: try/catch around the request.
fetchSubmissions_ui(stored, outcome) ==
    IF outcome = "ok" THEN [ok |-> TRUE, val |-> stored]
    ELSE [ok |-> TRUE, val |-> <<>>]

\* src/src/App.jsx: a rejected fetch rejects fetchSubmissions.
fetchSubmissions_plain(stored, outcome) ==
    IF outcome = "ok" THEN [ok |-> TRUE, val |-> stored]
    ELSE IF outcome = "status" THEN [ok |-> TRUE, val |-> <<>>]
    ELSE [ok |-> FALSE, val |-> <<>>]

fetchSubmissions(stored, outcome) ==
    IF variant = "ui" THEN fetchSubmissions_ui(stored, outcome)
    ELSE fetchSubmissions_plain(stored, outcome)

\* Whether the promise returned by postSubmission is fulfilled.
postSubmission_ui(outcome) == TRUE

postSubmission_plain(outcome) == outcome # "throw"

\* The endpoint stores the record of a POST it answers with success.
endpointPost(srv, username, data, outcome) ==
    IF outcome = "ok" THEN [srv EXCEPT ![username] = Append(@, data)] ELSE srv

----------------------------------------------------------------------------
\* Ghost bookkeeping.

Step(op, read, outcome) == [op |-> op, read |-> read, outcome |-> outcome]

NoSession == [base |-> <<>>, subs |-> <<>>, threw |-> FALSE, user |-> <<>>]

RemoveAt(s, i) == SubSeq(s, 1, i - 1) \o SubSeq(s, i + 1, Len(s))

Submitted(h, u, p) == IF <<u, p>> \in DOMAIN h.submitted THEN h.submitted[<<u, p>>] ELSE <<>>

RecordSubmit(h, u, p, data, stored) ==
    [submitted |-> [c \in DOMAIN h.submitted \cup {<<u, p>>} |->
                       IF c = <<u, p>> THEN Append(Submitted(h, u, p), data) ELSE h.submitted[c]],
     writeFailed |-> h.writeFailed \/ ~stored,
     readFailed |-> h.readFailed]

----------------------------------------------------------------------------
\* Initial state.

SeedUser == <<97>>
SeedPass == <<99>>

\* Texts another script of the origin, or an earlier run, may have left
\* under the key of (SeedUser, SeedPass).
SeedTexts ==
    { <<LB>>, <<LC, STR("name"), COLON, STR("x"), RC>>, JSON_stringify(<<R2>>) }

Init ==
    /\ variant \in Variants
    /\ loggedIn = FALSE
    /\ loginError = ""
    /\ submissions = <<>>
    /\ currentPage = "form"
    /\ auth = [username |-> <<>>, password |-> <<>>]
    /\ \E seeded \in BOOLEAN, text \in SeedTexts :
         /\ seeded => variant = "local"
         /\ ~seeded => text = <<LB>>
         /\ localStorage = IF seeded
                           THEN (getSubmissionsStorageKey(SeedUser, SeedPass).val :> text)
                           ELSE <<>>
         /\ history = [submitted |-> IF seeded /\ text = JSON_stringify(<<R2>>)
                                     THEN (<<SeedUser, SeedPass>> :> <<R2>>) ELSE <<>>,
                       writeFailed |-> FALSE,
                       readFailed |-> FALSE]
    /\ server = [u \in RemoteUsernames |-> <<>>]
    /\ pendingLogins = <<>>
    /\ pendingPosts = <<>>
    /\ nLogin = 0
    /\ nSubmit = 0
    /\ last = Step("init", <<>>, "")
    /\ session = NoSession

----------------------------------------------------------------------------
\* Session controller.

\* A slip that accepts a login when only one of the two fields is empty.
invalidCredentials_both(username, password) == username = <<>> /\ password = <<>>

\* `!username || !password`
invalidCredentials(username, password) == username = <<>> \/ password = <<>>

\* part_001: handleLogin(username, password), synchronous.
handleLogin_local(username, password, getOk) ==
    /\ variant = "local"
    /\ ~loggedIn
    /\ IF invalidCredentials(username, password)
       THEN /\ loginError' = RequiredMsg
            /\ last' = Step("login_invalid", <<>>, "")
            /\ UNCHANGED <<loggedIn, submissions, auth, nLogin, session, history>>
       ELSE /\ nLogin < MaxLogin
            /\ nLogin' = nLogin + 1
            /\ auth' = [username |-> username, password |-> password]
            /\ submissions' = loadSubmissions(localStorage, username, password, getOk)
            /\ loggedIn' = TRUE
            /\ loginError' = ""
            /\ last' = Step("login_done", submissions', IF getOk THEN "ok" ELSE "throw")
            /\ session' = [base |-> submissions', subs |-> <<>>, threw |-> FALSE, user |-> username]
            /\ history' = [history EXCEPT !.readFailed = @ \/ ~getOk]
    /\ UNCHANGED <<variant, currentPage, localStorage, server,
                   pendingLogins, pendingPosts, nSubmit>>

\* handleLogin with setLoggedIn(true) moved in front of the await.
handleLogin_remote_early(user, password) ==
    /\ Remote
    /\ ~loggedIn
    /\ IF invalidCredentials(user, password)
       THEN /\ loginError' = RequiredMsg
            /\ last' = Step("login_invalid", <<>>, "")
            /\ UNCHANGED <<auth, pendingLogins, nLogin, loggedIn>>
       ELSE /\ nLogin < MaxLogin
            /\ nLogin' = nLogin + 1
            /\ auth' = [auth EXCEPT !.username = user]
            /\ loggedIn' = TRUE
            /\ pendingLogins' = Append(pendingLogins, [user |-> user, password |-> password])
            /\ last' = Step("login", <<>>, "")
            /\ UNCHANGED loginError
    /\ UNCHANGED <<variant, submissions, currentPage, localStorage,
                   server, pendingPosts, nSubmit, session, history>>

\* App.jsx, part_000: handleLogin(user, password) up to `await fetchSubmissions(user)`.
handleLogin_remote(user, password) ==
    /\ Remote
    /\ ~loggedIn
    /\ IF invalidCredentials(user, password)
       THEN /\ loginError' = RequiredMsg
            /\ last' = Step("login_invalid", <<>>, "")
            /\ UNCHANGED <<auth, pendingLogins, nLogin>>
       ELSE /\ nLogin < MaxLogin
            /\ nLogin' = nLogin + 1
            /\ auth' = [auth EXCEPT !.username = user]
            /\ pendingLogins' = Append(pendingLogins, [user |-> user, password |-> password])
            /\ last' = Step("login", <<>>, "")
            /\ UNCHANGED loginError
    /\ UNCHANGED <<variant, loggedIn, submissions, currentPage, localStorage,
                   server, pendingPosts, nSubmit, session, history>>

\* The i-th pending request is answered and handleLogin resumes after the await.
handleLogin_resume(i, outcome) ==
    /\ Remote
    /\ i \in 1..Len(pendingLogins)
    /\ LET call == pendingLogins[i]
           res == fetchSubmissions(server[call.user], outcome)
       IN  /\ pendingLogins' = RemoveAt(pendingLogins, i)
           /\ IF res.ok
              THEN /\ submissions' = res.val
                   /\ loggedIn' = TRUE
                   /\ loginError' = ""
                   /\ last' = Step("login_done", res.val, outcome)
                   /\ session' = [base |-> res.val, subs |-> <<>>, threw |-> FALSE, user |-> call.user]
              ELSE /\ last' = Step("login_rejected", <<>>, outcome)
                   /\ UNCHANGED <<submissions, loggedIn, loginError, session>>
    /\ UNCHANGED <<variant, currentPage, auth, localStorage, server,
                   pendingPosts, nLogin, nSubmit, history>>

\* handleLogout without its setSubmissions([]).
handleLogout_keepList ==
    /\ loggedIn
    /\ loggedIn' = FALSE
    /\ currentPage' = "form"
    /\ auth' = [username |-> <<>>, password |-> <<>>]
    /\ last' = Step("logout", <<>>, "")
    /\ session' = NoSession
    /\ UNCHANGED <<variant, loginError, submissions, localStorage, server,
                   pendingLogins, pendingPosts, nLogin, nSubmit, history>>

handleLogout ==
    /\ loggedIn
    /\ loggedIn' = FALSE
    /\ currentPage' = "form"
    /\ auth' = [username |-> <<>>, password |-> <<>>]
    /\ submissions' = <<>>
    /\ last' = Step("logout", <<>>, "")
    /\ session' = NoSession
    /\ UNCHANGED <<variant, loginError, localStorage, server,
                   pendingLogins, pendingPosts, nLogin, nSubmit, history>>

\* App.jsx, part_001: the two page buttons.
setCurrentPage(page) ==
    /\ variant \in {"plain", "local"}
    /\ loggedIn
    /\ currentPage' = page
    /\ UNCHANGED <<last, variant, loggedIn, loginError, submissions, auth, localStorage,
                   server, pendingLogins, pendingPosts, nLogin, nSubmit, session, history>>

----------------------------------------------------------------------------
\* Submission list.

FormShown == loggedIn /\ (variant = "ui" \/ currentPage = "form")

\* handleFormSubmit that stores first, without the adapter's try/catch: a
\* failed write leaves the handler before the list is updated.
handleFormSubmit_local_saveFirst(formData, setOk) ==
    /\ variant = "local"
    /\ FormShown
    /\ nSubmit < MaxSubmit
    /\ nSubmit' = nSubmit + 1
    /\ LET next == Append(submissions, formData)
           stored == setOk /\ getSubmissionsStorageKey(auth.username, auth.password).ok
       IN  /\ submissions' = IF stored THEN next ELSE submissions
           /\ localStorage' = saveSubmissions(localStorage, auth.username, auth.password, next, setOk)
    /\ last' = Step("submit", <<>>, IF setOk THEN "ok" ELSE "throw")
    /\ session' = [session EXCEPT !.subs = Append(@, formData)]
    /\ history' = RecordSubmit(history, auth.username, auth.password, formData,
                               setOk /\ getSubmissionsStorageKey(auth.username, auth.password).ok)
    /\ UNCHANGED <<variant, loggedIn, loginError, currentPage, auth, server,
                   pendingLogins, pendingPosts, nLogin>>

\* part_001: handleFormSubmit(formData), synchronous full rewrite.
handleFormSubmit_local(formData, setOk) ==
    /\ variant = "local"
    /\ FormShown
    /\ nSubmit < MaxSubmit
    /\ nSubmit' = nSubmit + 1
    /\ LET next == Append(submissions, formData) IN
       /\ submissions' = next
       /\ localStorage' = saveSubmissions(localStorage, auth.username, auth.password, next, setOk)
    /\ last' = Step("submit", <<>>, IF setOk THEN "ok" ELSE "throw")
    /\ session' = [session EXCEPT !.subs = Append(@, formData)]
    /\ history' = RecordSubmit(history, auth.username, auth.password, formData,
                               setOk /\ getSubmissionsStorageKey(auth.username, auth.password).ok)
    /\ UNCHANGED <<variant, loggedIn, loginError, currentPage, auth, server,
                   pendingLogins, pendingPosts, nLogin>>

\* part_000: handleFormSubmit(formData): append, then fire-and-forget POST.
handleFormSubmit_ui(formData) ==
    /\ variant = "ui"
    /\ FormShown
    /\ nSubmit < MaxSubmit
    /\ nSubmit' = nSubmit + 1
    /\ submissions' = Append(submissions, formData)
    /\ pendingPosts' = Append(pendingPosts,
                              [username |-> auth.username, data |-> formData, closure |-> <<>>])
    /\ last' = Step("submit", <<>>, "")
    /\ session' = [session EXCEPT !.subs = Append(@, formData)]
    /\ UNCHANGED <<variant, loggedIn, loginError, currentPage, auth, localStorage,
                   server, pendingLogins, nLogin, history>>

\* App.jsx: handleFormSubmit(formData) up to `await postSubmission(...)`.
handleFormSubmit_plain(formData) ==
    /\ variant = "plain"
    /\ FormShown
    /\ nSubmit < MaxSubmit
    /\ nSubmit' = nSubmit + 1
    /\ pendingPosts' = Append(pendingPosts,
                              [username |-> auth.username, data |-> formData, closure |-> submissions])
    /\ last' = Step("submit", <<>>, "")
    /\ session' = [session EXCEPT !.subs = Append(@, formData)]
    /\ UNCHANGED <<variant, loggedIn, loginError, submissions, currentPage, auth,
                   localStorage, server, pendingLogins, nLogin, history>>

\* The i-th POST is answered.  In App.jsx handleFormSubmit resumes after the
\* await and appends to the list it captured when it was called (closure);
\* in part_000 nothing follows the request and nothing is captured.
postSubmission_done(i, outcome) ==
    /\ Remote
    /\ i \in 1..Len(pendingPosts)
    /\ LET call == pendingPosts[i] IN
       /\ pendingPosts' = RemoveAt(pendingPosts, i)
       /\ server' = endpointPost(server, call.username, call.data, outcome)
       /\ last' = Step("post_done", <<>>, "")
       /\ session' = [session EXCEPT !.threw = @ \/ outcome = "throw"]
       /\ IF variant = "plain" /\ postSubmission_plain(outcome)
          THEN submissions' = Append(call.closure, call.data)
          ELSE UNCHANGED submissions
    /\ UNCHANGED <<variant, loggedIn, loginError, currentPage, auth, localStorage,
                   pendingLogins, nLogin, nSubmit, history>>

----------------------------------------------------------------------------

Next ==
    \/ \E u \in Usernames, p \in Passwords, getOk \in BOOLEAN : handleLogin_local(u, p, getOk)
    \/ \E u \in RemoteUsernames, p \in RemotePasswords : handleLogin_remote(u, p)
    \/ \E i \in 1..Len(pendingLogins), o \in Outcomes : handleLogin_resume(i, o)
    \/ handleLogout
    \/ \E page \in {"form", "view"} : setCurrentPage(page)
    \/ \E r \in Records, setOk \in BOOLEAN : handleFormSubmit_local(r, setOk)
    \/ \E r \in Records : handleFormSubmit_ui(r)
    \/ \E r \in Records : handleFormSubmit_plain(r)
    \/ \E i \in 1..Len(pendingPosts), o \in Outcomes : postSubmission_done(i, o)

Spec == Init /\ [][Next]_vars

TypeOK ==
    /\ variant \in Variants
    /\ loggedIn \in BOOLEAN
    /\ nLogin \in 0..MaxLogin
    /\ nSubmit \in 0..MaxSubmit

----------------------------------------------------------------------------
\* Properties.

\* A step that is a login call with valid credentials running to its end:
\* the whole of the synchronous handler, or the part after the await.
LoginCompletes ==
    \/ \E u \in Usernames, p \in Passwords, getOk \in BOOLEAN :
         /\ u # <<>> /\ p # <<>>
         /\ handleLogin_local(u, p, getOk)
    \/ \E i \in 1..Len(pendingLogins), o \in Outcomes :
         /\ pendingLogins[i].user # <<>> /\ pendingLogins[i].password # <<>>
         /\ handleLogin_resume(i, o)

\* A step that is a login call with an empty user name or an empty password.
LoginInvalid ==
    /\ ~loggedIn
    /\ \E u \in Usernames \cup RemoteUsernames, p \in Passwords :
          /\ u = <<>> \/ p = <<>>
          /\ \/ \E getOk \in BOOLEAN : handleLogin_local(u, p, getOk)
             \/ handleLogin_remote(u, p)

RECURSIVE Count(_, _)
Count(s, x) == IF Len(s) = 0 THEN 0
               ELSE (IF s[1] = x THEN 1 ELSE 0) + Count(Tail(s), x)

\* C1: every login call with a non-empty user name and a non-empty password
\* ends with the session authenticated and the in-memory list equal to the
\* sequence the store adapter's read returned.
C1_LoginPopulates ==
    last.op \in {"login_done", "login_rejected"} => (loggedIn /\ submissions = last.read)

\* C2: a login call with an empty user name or an empty password leaves the
\* session anonymous, sets the validation message and changes nothing else:
\* credentials, list and stores keep their values, no read is started.
C2_InvalidLoginKeepsState ==
    [][LoginInvalid =>
         /\ ~loggedIn'
         /\ loginError' = RequiredMsg
         /\ UNCHANGED <<loggedIn, auth, submissions, currentPage, localStorage, server,
                        pendingLogins, pendingPosts, nLogin>>]_vars

C2_Witness ==
    /\ last.op = "login_invalid"
    /\ ~loggedIn
    /\ loginError = RequiredMsg
    /\ nLogin = 0

\* C3: once all submits of a session have completed, the in-memory list is the
\* list obtained at login followed by the submitted records in submission
\* order (stated for a run with a single login and no request that threw).
C3_AppendsInOrder ==
    (nLogin = 1 /\ loggedIn /\ pendingPosts = <<>> /\ ~session.threw)
        => submissions = session.base \o session.subs

\* C4: remote builds: when the login read is answered with a non-success
\* status or the request throws, login still ends authenticated, with an
\* empty list, and no error leaves the handler.
C4_ReadDegrades ==
    (Remote /\ last.op \in {"login_done", "login_rejected"} /\ last.outcome \in {"status", "throw"})
        => (last.op = "login_done" /\ loggedIn /\ submissions = <<>>)

\* C5: remote builds: whatever the outcome of its POST, a record submitted in
\* the running session is in the in-memory list once the POST has been answered.
C5_AppendSurvivesPost ==
    (Remote /\ loggedIn /\ last.op = "post_done" /\ pendingPosts = <<>>)
        => \A r \in Records : Count(submissions, r) >= Count(session.subs, r)

\* C6: local build: loadSubmissions(u, p) right after saveSubmissions(u, p, S)
\* returns S (checked on the save of every submit, storage itself working).
C6_RoundTrip ==
    [][\A r \in Records :
          handleFormSubmit_local(r, TRUE) =>
             loadSubmissions(localStorage', auth.username, auth.password, TRUE)
                 = Append(submissions, r)]_vars

\* C7: local build: a login never shows a record that was written under
\* another credential pair.
C7_Isolation ==
    (variant = "local" /\ last.op = "login_done")
        => \A r \in Records :
              Count(submissions, r) <= Count(Submitted(history, auth.username, auth.password), r)

\* C8: local build: when no storage write has failed (and no read either), a
\* login with (u, p) yields all records ever submitted under (u, p), in
\* submission order.
C8_Persistence ==
    (variant = "local" /\ last.op = "login_done" /\ ~history.writeFailed /\ ~history.readFailed)
        => submissions = Submitted(history, auth.username, auth.password)

\* C9: logout leaves the session anonymous with empty credentials and an empty
\* list, writes nothing to storage and issues no request.
C9_LogoutResets ==
    [][handleLogout =>
         /\ ~loggedIn'
         /\ auth' = [username |-> <<>>, password |-> <<>>]
         /\ submissions' = <<>>
         /\ UNCHANGED <<localStorage, server, pendingLogins, pendingPosts>>]_vars

C9_Witness ==
    /\ last.op = "logout"
    /\ ~loggedIn
    /\ submissions = <<>>
    /\ nSubmit > 0
    /\ (localStorage # <<>> \/ pendingPosts # <<>>)

\* C10: the session starts anonymous, becomes authenticated only as the
\* completion of a login with non-empty credentials, and becomes anonymous
\* again only by logout; nothing else changes it.
C10_SessionStateMachine ==
    /\ ~loggedIn
    /\ [][/\ loggedIn' \in BOOLEAN
          /\ (~loggedIn /\ loggedIn') => LoginCompletes
          /\ (loggedIn /\ ~loggedIn') => handleLogout]_vars

C10_Witness ==
    /\ variant = "local"
    /\ loggedIn
    /\ nLogin = 2
    /\ nSubmit = 1
    /\ last.op = "login_done"

IsPrefix(s, t) == Len(s) <= Len(t) /\ SubSeq(t, 1, Len(s)) = s

\* The key of the session's credential pair (ok = FALSE: it cannot be computed).
SessionKey == getSubmissionsStorageKey(auth.username, auth.password)

\* C11: within one authenticated session the in-memory list only grows at its
\* end: at every step the previous list is a prefix of the new one (stated for
\* a run with a single login).
C11_AppendOnly ==
    [][(nLogin = 1 /\ loggedIn /\ loggedIn') => IsPrefix(submissions, submissions')]_vars

\* C12: local build: after a submit whose storage write succeeds, the value
\* stored under the key of the session's credentials is the serialization of
\* the whole in-memory list, and reading it back gives that list.
C12_FullRewrite ==
    [][\A r \in Records :
          (handleFormSubmit_local(r, TRUE) /\ SessionKey.ok) =>
             /\ SessionKey.val \in DOMAIN localStorage'
             /\ localStorage'[SessionKey.val] = JSON_stringify(submissions')
             /\ loadSubmissions(localStorage', auth.username, auth.password, TRUE) = submissions']_vars

\* The second submit of a session is stored after the write of the first failed.
C12_Witness ==
    /\ variant = "local"
    /\ last.op = "submit" /\ last.outcome = "ok"
    /\ nLogin = 1 /\ history.writeFailed
    /\ Len(session.subs) = 2
    /\ SessionKey.ok
    /\ SessionKey.val \in DOMAIN localStorage
    /\ localStorage[SessionKey.val] = JSON_stringify(submissions)

\* C13: local build: when the storage write of a submit fails, nothing is
\* surfaced, the session stays authenticated, the record is appended to the
\* in-memory list and storage is left exactly as it was.
C13_FailedWriteKeepsStore ==
    [][\A r \in Records, setOk \in BOOLEAN :
          (handleFormSubmit_local(r, setOk) /\ (~setOk \/ ~SessionKey.ok)) =>
             /\ loggedIn'
             /\ loginError' = loginError
             /\ submissions' = Append(submissions, r)
             /\ localStorage' = localStorage]_vars

\* A failed write after a stored one: the persisted copy is stale.
C13_Witness ==
    /\ variant = "local"
    /\ last.op = "submit" /\ last.outcome = "throw"
    /\ loggedIn
    /\ SessionKey.ok
    /\ SessionKey.val \in DOMAIN localStorage
    /\ Len(submissions) = 2
    /\ localStorage[SessionKey.val] = JSON_stringify(SubSeq(submissions, 1, 1))

\* The stored text under the session's key can be read and is a JSON array.
StoredArray ==
    /\ last.outcome = "ok"
    /\ SessionKey.ok
    /\ SessionKey.val \in DOMAIN localStorage
    /\ JSON_parse(localStorage[SessionKey.val]).ok
    /\ JSON_parse(localStorage[SessionKey.val]).kind = "array"

\* C14: local build: a login ends authenticated; its list is the stored value
\* when that parses as a JSON array, and is empty when the key is missing, the
\* text does not parse, the value is not an array or storage access throws.
C14_LoadDegrades ==
    (variant = "local" /\ last.op = "login_done") =>
        /\ loggedIn
        /\ IF StoredArray
           THEN JSON_stringify(submissions) = localStorage[SessionKey.val]
           ELSE submissions = <<>>

\* A login over a stored value of the wrong shape (an object).
C14_Witness ==
    /\ variant = "local"
    /\ last.op = "login_done" /\ last.outcome = "ok"
    /\ loggedIn
    /\ submissions = <<>>
    /\ SessionKey.ok
    /\ SessionKey.val \in DOMAIN localStorage
    /\ JSON_parse(localStorage[SessionKey.val]).ok
    /\ JSON_parse(localStorage[SessionKey.val]).kind = "object"

\* C15: the list is changed only by the running session: while the session is
\* anonymous the in-memory list stays empty, whatever completes later.
C15_EmptyWhileAnonymous ==
    ~loggedIn => submissions = <<>>

\* C16: remote builds: whenever the session is authenticated the stored user
\* name is non-empty and is the user of the login call whose read populated
\* the in-memory list.
C16_UserMatchesList ==
    (Remote /\ loggedIn) => (auth.username # <<>> /\ auth.username = session.user)

====
